---- MODULE Spec2Model ----
(***************************************************************************)
(* Model of unit_procs/bio.py: class asm_reactor (a CSTR holding an ASM_1  *)
(* kinetics model) and its Euler / RK4 integration.                        *)
(*                                                                         *)
(* Concentrations, rates and step sizes are exact rationals <<n, d>> in    *)
(* lowest terms with d > 0 (the Python code uses floats; 0.05 is 1/20).    *)
(* Python list index i is index i + 1 here.                                *)
(***************************************************************************)
EXTENDS Integers, Sequences, FiniteSets, TLC

(***************************************************************************)
(* Rational arithmetic                                                     *)
(***************************************************************************)
Abs(x) == IF x < 0 THEN -x ELSE x

RECURSIVE GCD(_, _)
GCD(a, b) == IF b = 0 THEN a ELSE GCD(b, a % b)

LCM(a, b) == (a \div GCD(a, b)) * b

Rat(n, d) ==
    LET s == IF d < 0 THEN -1 ELSE 1
        g == GCD(Abs(n), Abs(d))
    IN  <<(s * n) \div g, (s * d) \div g>>

RInt(n) == <<n, 1>>

RZero == <<0, 1>>

RAdd(a, b) ==
    LET L == LCM(a[2], b[2])
    IN  Rat(a[1] * (L \div a[2]) + b[1] * (L \div b[2]), L)

RMul(a, b) ==
    LET g1 == GCD(Abs(a[1]), b[2])
        g2 == GCD(Abs(b[1]), a[2])
    IN  Rat((a[1] \div g1) * (b[1] \div g2), (a[2] \div g2) * (b[2] \div g1))

RDiv(a, b) == RMul(a, Rat(b[2], b[1]))

RAbs(a) == <<Abs(a[1]), a[2]>>

RLt(a, b) ==
    LET L == LCM(a[2], b[2])
    IN  a[1] * (L \div a[2]) < b[1] * (L \div b[2])

\* Python's min() over a non-empty collection of numbers
RMin(S) == CHOOSE x \in S : \A y \in S : ~RLt(y, x)

\* the Python list [f[1], ..., f[n]], built element by element
RECURSIVE ToList(_, _)
ToList(f, n) == IF n = 0 THEN <<>> ELSE Append(ToList(f, n - 1), f[n])

(***************************************************************************)
(* Sizes and input sets                                                    *)
(***************************************************************************)
\* constants._NUM_ASM1_COMPONENTS
NumComps == 13

\* number of calls made on the reactor in one behaviour
MaxCalls == 3

Idx == 1..NumComps

\* a vector whose first 7 entries are s and whose other entries are p
Vec(s, p) == ToList([i \in Idx |-> IF i <= 7 THEN s ELSE p], NumComps)

\* a vector whose first entry is f and whose other entries are r
VecHead(f, r) == ToList([i \in Idx |-> IF i = 1 THEN f ELSE r], NumComps)

ZeroVec == ToList([i \in Idx |-> RZero], NumComps)

Guesses == { VecHead(RInt(10), RInt(5)), Vec(RInt(2), RInt(4)) }

Vols == {-5, 0, 380}

Conditions == { <<3, 2>>, <<20, -1>>, <<4, 0>> }

DischargeArgs == [fip |-> 7, method |-> "Euler", f_s |-> Rat(1, 20), f_p |-> RInt(2)]

IntegrateArgs ==
    { DischargeArgs,
      [fip |-> 1, method |-> "Euler", f_s |-> Rat(1, 10), f_p |-> RInt(2)],
      [fip |-> 7, method |-> "Euler", f_s |-> RInt(1),    f_p |-> RInt(2)],
      [fip |-> 7, method |-> "RK4",   f_s |-> RInt(1),    f_p |-> RInt(2)] }

\* rate laws the kinetics model may implement:
\*   "const": rate[i] = k[i];  "decay": rate[i] = -k[i] * comps[i]
Kinetics ==
    { [law |-> "const", k |-> ZeroVec],
      [law |-> "const", k |-> VecHead(RInt(-2), RInt(-1))],
      [law |-> "const", k |-> Vec(RInt(-2), RZero)],
      [law |-> "decay", k |-> Vec(RInt(1), RInt(3))] }

(***************************************************************************)
(* State                                                                   *)
(***************************************************************************)
VARIABLES
    active_vol,      \* self._active_vol
    swd,             \* self._swd
    area,            \* self._area
    temperature,     \* condition held by self._sludge
    DO,              \* condition held by self._sludge
    sludge_comps,    \* self._sludge._comps
    in_comps,        \* self._in_comps
    total_inflow,    \* self._total_inflow
    mo_comps,        \* self._mo_comps
    so_comps,        \* self._so_comps
    prev_mo_comps,   \* self._prev_mo_comps
    prev_so_comps,   \* self._prev_so_comps
    delivered,       \* what _discharge_main_outlet last handed downstream
    kin,             \* the rate law of self._sludge._dCdt
    guessed,         \* assign_initial_guess has been called
    op,              \* the last call: name, arguments, result
    evals,           \* arguments of the _dCdt calls made by the last call
    icalls,          \* arguments of the integrate calls made by the last call
    dsteps,          \* steps performed by the last discharge call
    steps_done,      \* integration steps completed so far
    ncalls           \* calls made so far

reactor == <<active_vol, swd, area, temperature, DO, sludge_comps, in_comps,
             total_inflow, mo_comps, so_comps, prev_mo_comps, prev_so_comps,
             delivered>>

vars == <<active_vol, swd, area, temperature, DO, sludge_comps, in_comps,
          total_inflow, mo_comps, so_comps, prev_mo_comps, prev_so_comps,
          delivered, kin, guessed, op, evals, icalls, dsteps, steps_done,
          ncalls>>

(***************************************************************************)
(* Collaborators that live outside bio.py (ASM_1, pipe)                    *)
(***************************************************************************)
\* ASM_1._dCdt(vol, inflow, in_comps, comps): the rate vector
dCdt(vol, inflow, inc, comps) ==
    ToList([i \in 1..Len(comps) |->
               IF kin.law = "const" THEN kin.k[i]
               ELSE RMul(RInt(-1), RMul(kin.k[i], comps[i]))],
           Len(comps))

\* ASM_1.__init__: the model's own component vector
ASM1InitComps == ZeroVec

\* pipe.__init__: secondary-outlet vector and total inflow
PipeInitSoComps == ZeroVec

PipeInitTotalInflow == RZero

(***************************************************************************)
(* Step size and integration (_euler, _runge_kutta_4, integrate)           *)
(***************************************************************************)
EvalArgs(at) ==
    [vol |-> active_vol, inflow |-> total_inflow, inc |-> in_comps, at |-> at]

\* _uppers_sol / _uppers_part: cur[i] / abs(rate[i]) for the nonzero rates
\* among the (1-based) indices lo..hi
Uppers(rate, cur, lo, hi) ==
    { RDiv(cur[i], RAbs(rate[i])) : i \in { j \in lo..hi : rate[j] # RZero } }

\* _step_sol = f_s * min(_uppers_sol)
StepSol(f_s, us) == RMul(f_s, RMin(us))

\* self._sludge._comps[i] += _del_C_del_t[i] * _step_sol
EulerNext(cur, rate, step) ==
    ToList([i \in 1..Len(cur) |-> RAdd(cur[i], RMul(rate[i], step))],
           Len(cur))

\* y_n + h * k, the argument of an RK4 stage
Stage(y, h, k) ==
    ToList([i \in 1..Len(k) |-> RAdd(y[i], RMul(h, k[i]))], Len(k))

\* comps[i] + (k1[i] + 2 * k2[i] + 2 * k3[i] + k4[i]) / 6 * _step_sol
RK4Next(cur, k1, k2, k3, k4, step) ==
    ToList([i \in 1..Len(cur) |->
               RAdd(cur[i],
                    RMul(RDiv(RAdd(RAdd(k1[i], RMul(RInt(2), k2[i])),
                                   RAdd(RMul(RInt(2), k3[i]), k4[i])),
                              RInt(6)),
                         step))],
           Len(cur))

\* outcome of a call that raised before assigning anything
Raised(exc, ev) ==
    [result |-> exc, comps |-> sludge_comps, mo |-> mo_comps,
     so |-> so_comps, evals |-> ev]

Euler(fip, f_s, f_p) ==
    LET rate == dCdt(active_vol, total_inflow, in_comps, mo_comps)
        ev   == <<EvalArgs(mo_comps)>>
        us   == Uppers(rate, sludge_comps, 1, fip)
        up   == Uppers(rate, sludge_comps, fip + 1, Len(rate))
    IN  IF us = {} \/ up = {}
        THEN Raised("ValueError", ev)
        ELSE LET step_sol == StepSol(f_s, us)
                 step_part == RMul(f_s, RMin(up))
                 new == EulerNext(sludge_comps, rate, step_sol)
             IN  [result |-> "ok", comps |-> new, mo |-> new, so |-> new,
                  evals |-> ev]

RungeKutta4(fip, f_s, f_p) ==
    LET k1 == dCdt(active_vol, total_inflow, in_comps, mo_comps)
        us == Uppers(k1, sludge_comps, 1, fip)
        up == Uppers(k1, sludge_comps, fip + 1, Len(k1))
    IN  IF us = {} \/ up = {}
        THEN Raised("ValueError", <<EvalArgs(mo_comps)>>)
        ELSE LET step_sol == StepSol(f_s, us)
                 step_part == RMul(f_p, RMin(up))
                 sz_2 == RDiv(step_sol, RInt(2))
                 w2 == Stage(mo_comps, sz_2, k1)
                 k2 == dCdt(active_vol, total_inflow, in_comps, w2)
                 w3 == Stage(mo_comps, sz_2, k2)
                 k3 == dCdt(active_vol, total_inflow, in_comps, w3)
                 w4 == Stage(mo_comps, step_sol, k3)
                 k4 == dCdt(active_vol, total_inflow, in_comps, w4)
                 new == RK4Next(sludge_comps, k1, k2, k3, k4, step_sol)
             IN  [result |-> "ok", comps |-> new, mo |-> new, so |-> new,
                  evals |-> <<EvalArgs(mo_comps), EvalArgs(w2),
                              EvalArgs(w3), EvalArgs(w4)>>]

IntegrateResult(a) ==
    IF a.method = "Euler"
    THEN Euler(a.fip, a.f_s, a.f_p)
    ELSE RungeKutta4(a.fip, a.f_s, a.f_p)

(***************************************************************************)
(* Construction                                                            *)
(***************************************************************************)
Init ==
    /\ active_vol = 38000
    /\ swd = Rat(7, 2)
    /\ area = RDiv(RInt(38000), Rat(7, 2))
    /\ temperature = 20
    /\ DO = 2
    /\ sludge_comps = ASM1InitComps
    /\ in_comps = ZeroVec
    /\ total_inflow = PipeInitTotalInflow
    /\ mo_comps = ZeroVec
    /\ so_comps = PipeInitSoComps
    /\ prev_mo_comps = ZeroVec
    /\ prev_so_comps = ZeroVec
    /\ delivered = ZeroVec
    /\ kin \in Kinetics
    /\ guessed = FALSE
    /\ op = [name |-> "__init__", result |-> "ok", printed |-> FALSE,
             args |-> [ActiveVol |-> 38000]]
    /\ evals = <<>>
    /\ icalls = <<>>
    /\ dsteps = <<>>
    /\ steps_done = 0
    /\ ncalls = 0

Called(name, result, printed, args) ==
    /\ op' = [name |-> name, result |-> result, printed |-> printed,
              args |-> args]
    /\ ncalls' = ncalls + 1

(***************************************************************************)
(* Operations                                                              *)
(***************************************************************************)
assign_initial_guess(initial_guess) ==
    /\ ncalls < MaxCalls
    /\ sludge_comps' = initial_guess
    /\ mo_comps' = initial_guess
    /\ guessed' = TRUE
    /\ Called("assign_initial_guess", "ok", FALSE,
              [initial_guess |-> initial_guess])
    /\ evals' = <<>> /\ icalls' = <<>> /\ dsteps' = <<>>
    /\ UNCHANGED <<active_vol, swd, area, temperature, DO, in_comps,
                   total_inflow, so_comps, prev_mo_comps, prev_so_comps,
                   delivered, kin, steps_done>>

\* set_active_vol without its vol > 0 test
NewActiveVolUnchecked(vol) == vol

\* the volume stored by set_active_vol(vol)
NewActiveVol(vol) == IF vol > 0 THEN vol ELSE active_vol

set_active_vol(vol) ==
    /\ ncalls < MaxCalls
    /\ active_vol' = NewActiveVol(vol)
    /\ Called("set_active_vol", "ok", ~(vol > 0), [vol |-> vol])
    /\ evals' = <<>> /\ icalls' = <<>> /\ dsteps' = <<>>
    /\ UNCHANGED <<swd, area, temperature, DO, sludge_comps, in_comps,
                   total_inflow, mo_comps, so_comps, prev_mo_comps,
                   prev_so_comps, delivered, kin, guessed, steps_done>>

\* ASM_1.update(Temperature, DO): the conditions the model holds afterwards
ASM1Update(t, d) == <<t, d>>

\* the conditions held after set_model_condition(Temperature, DO)
NewCondition(t, d) ==
    IF t >= 4 /\ d >= 0 THEN ASM1Update(t, d) ELSE <<temperature, DO>>

set_model_condition(t, d) ==
    /\ ncalls < MaxCalls
    /\ temperature' = NewCondition(t, d)[1]
    /\ DO' = NewCondition(t, d)[2]
    /\ Called("set_model_condition", "ok", ~(t >= 4 /\ d >= 0),
              [Temperature |-> t, DO |-> d])
    /\ evals' = <<>> /\ icalls' = <<>> /\ dsteps' = <<>>
    /\ UNCHANGED <<active_vol, swd, area, sludge_comps, in_comps,
                   total_inflow, mo_comps, so_comps, prev_mo_comps,
                   prev_so_comps, delivered, kin, guessed, steps_done>>

integrate(a) ==
    LET r == IntegrateResult(a)
    IN  /\ ncalls < MaxCalls
        /\ sludge_comps' = r.comps
        /\ mo_comps' = r.mo
        /\ so_comps' = r.so
        /\ steps_done' = IF r.result = "ok" THEN steps_done + 1 ELSE steps_done
        /\ Called("integrate", r.result, FALSE, a)
        /\ evals' = r.evals /\ icalls' = <<a>> /\ dsteps' = <<>>
        /\ UNCHANGED <<active_vol, swd, area, temperature, DO, in_comps,
                       total_inflow, prev_mo_comps, prev_so_comps, delivered,
                       kin, guessed>>

\* the steps of a discharge call that runs to its end
DischargeOrder ==
    <<"_branch_flow_helper", "snapshot", "integrate", "publish_so",
      "_discharge_main_outlet">>

discharge ==
    LET r == IntegrateResult(DischargeArgs)
    IN  /\ ncalls < MaxCalls
        /\ prev_mo_comps' = mo_comps
        /\ prev_so_comps' = mo_comps
        /\ sludge_comps' = r.comps
        /\ mo_comps' = r.mo
        /\ IF r.result = "ok"
           THEN /\ so_comps' = r.mo
                /\ delivered' = r.mo
                /\ dsteps' = DischargeOrder
                /\ steps_done' = steps_done + 1
           ELSE /\ so_comps' = r.so
                /\ delivered' = delivered
                /\ dsteps' = SubSeq(DischargeOrder, 1, 3)
                /\ steps_done' = steps_done
        /\ Called("discharge", r.result, FALSE, [none |-> TRUE])
        /\ evals' = r.evals /\ icalls' = <<DischargeArgs>>
        /\ UNCHANGED <<active_vol, swd, area, temperature, DO, in_comps,
                       total_inflow, kin, guessed>>

Next ==
    \/ \E g \in Guesses : assign_initial_guess(g)
    \/ \E v \in Vols : set_active_vol(v)
    \/ \E c \in Conditions : set_model_condition(c[1], c[2])
    \/ \E a \in IntegrateArgs : integrate(a)
    \/ discharge

Spec == Init /\ [][Next]_vars

TypeOK ==
    /\ active_vol \in Int
    /\ Len(sludge_comps) = NumComps
    /\ Len(mo_comps) = NumComps
    /\ Len(so_comps) = NumComps

(***************************************************************************)
(* Properties                                                              *)
(***************************************************************************)
\* the rate vector the next integrate call starts from
CurRate == dCdt(active_vol, total_inflow, in_comps, mo_comps)

\* every rate of the soluble / particulate partition is zero
SolubleZero(fip) == \A i \in 1..fip : CurRate[i] = RZero

ParticulateZero(fip) == \A i \in (fip + 1)..NumComps : CurRate[i] = RZero

RPos(a) == a[1] > 0

RNonNeg(a) == a[1] >= 0

\* C1: an integrate call (Euler or RK4) made while every soluble rate or
\* every particulate rate is zero completes with a fallback step; it does
\* not fail on the minimum of an empty set of bounds.
C1_DegenerateStepHandled ==
    [][(/\ op'.name = "integrate"
        /\ SolubleZero(op'.args.fip) \/ ParticulateZero(op'.args.fip))
       => op'.result = "ok"]_vars

\* C2: with an all-zero rate vector, an integrate or discharge call runs to
\* its end and leaves the liquor vector and both outlet vectors at the
\* values they had.
C2_ZeroRateInvariance ==
    [][(/\ op'.name \in {"integrate", "discharge"}
        /\ \A i \in Idx : CurRate[i] = RZero)
       => /\ op'.result = "ok"
          /\ sludge_comps' = sludge_comps
          /\ mo_comps' = mo_comps
          /\ so_comps' = so_comps]_vars

\* C3: for linear decay rate[i] = -k[i] * current[i] with every k[i] > 0,
\* every current[i] > 0 and 0 < f_s <= 1, one integrate call leaves every
\* component >= 0.
C3_NonNegativeAfterStep ==
    [][(/\ op'.name = "integrate"
        /\ kin.law = "decay"
        /\ \A i \in Idx : RPos(kin.k[i])
        /\ \A i \in Idx : RPos(sludge_comps[i]) /\ RPos(mo_comps[i])
        /\ RPos(op'.args.f_s) /\ ~RLt(RInt(1), op'.args.f_s))
       => \A i \in Idx : RNonNeg(sludge_comps'[i])]_vars

\* C4: set_active_vol with vol <= 0 and set_model_condition with
\* Temperature < 4 or DO < 0 return normally and leave the whole reactor
\* state unchanged; with valid values they change only the targeted setting.
C4_MutatorsValidate ==
    [][/\ op'.name = "set_active_vol" =>
            /\ op'.result = "ok"
            /\ IF op'.args.vol > 0
               THEN active_vol' = op'.args.vol
               ELSE active_vol' = active_vol
            /\ UNCHANGED <<swd, area, temperature, DO, sludge_comps,
                           in_comps, total_inflow, mo_comps, so_comps,
                           prev_mo_comps, prev_so_comps, delivered, kin>>
       /\ op'.name = "set_model_condition" =>
            /\ op'.result = "ok"
            /\ IF op'.args.Temperature >= 4 /\ op'.args.DO >= 0
               THEN temperature' = op'.args.Temperature /\ DO' = op'.args.DO
               ELSE temperature' = temperature /\ DO' = DO
            /\ UNCHANGED <<active_vol, swd, area, sludge_comps, in_comps,
                           total_inflow, mo_comps, so_comps, prev_mo_comps,
                           prev_so_comps, delivered, kin>>]_vars

\* C4 witness: an invalid volume was rejected after a valid one had been
\* stored.
C4_Witness ==
    /\ op.name = "set_active_vol"
    /\ op.args.vol <= 0
    /\ op.printed
    /\ active_vol = 380

\* C5: one Euler integration sets next[i] = current[i] + rate[i] * step
\* for every i, with step = f_s * min over the soluble i with rate[i] # 0
\* of current[i] / |rate[i]|, whatever f_p and the particulate bound are;
\* current = [10, 5], rate = [-2, -1], boundary 1, f_s = 0.1 gives
\* [9.0, 4.5].
C5_EulerStep ==
    [][(/\ op'.name = "integrate"
        /\ op'.args.method = "Euler"
        /\ ~SolubleZero(op'.args.fip))
       => /\ sludge_comps' =
                EulerNext(sludge_comps, CurRate,
                          StepSol(op'.args.f_s,
                                  Uppers(CurRate, sludge_comps, 1,
                                         op'.args.fip)))
          /\ EulerNext(<<RInt(10), RInt(5)>>, <<RInt(-2), RInt(-1)>>,
                       StepSol(Rat(1, 10),
                               Uppers(<<RInt(-2), RInt(-1)>>,
                                      <<RInt(10), RInt(5)>>, 1, 1)))
               = <<RInt(9), Rat(9, 2)>>]_vars

\* the four stage arguments and the result of a classic RK4 step of size h
\* from the liquor vector
RK4W2(h) == Stage(sludge_comps, RDiv(h, RInt(2)), CurRate)

RK4K2(h) == dCdt(active_vol, total_inflow, in_comps, RK4W2(h))

RK4W3(h) == Stage(sludge_comps, RDiv(h, RInt(2)), RK4K2(h))

RK4K3(h) == dCdt(active_vol, total_inflow, in_comps, RK4W3(h))

RK4W4(h) == Stage(sludge_comps, h, RK4K3(h))

RK4K4(h) == dCdt(active_vol, total_inflow, in_comps, RK4W4(h))

\* C6: one RK4 integration evaluates the rate function exactly four times,
\* with the same volume, inflow and inflow vector, at state,
\* state + (h/2) k1, state + (h/2) k2, state + h k3, and sets
\* next = state + (h/6)(k1 + 2 k2 + 2 k3 + k4), h the soluble step and state
\* the pre-step liquor vector.
C6_RK4Step ==
    [][(/\ op'.name = "integrate"
        /\ op'.args.method = "RK4"
        /\ ~SolubleZero(op'.args.fip))
       => LET h == StepSol(op'.args.f_s,
                           Uppers(CurRate, sludge_comps, 1, op'.args.fip))
          IN  /\ evals' = <<EvalArgs(sludge_comps), EvalArgs(RK4W2(h)),
                            EvalArgs(RK4W3(h)), EvalArgs(RK4W4(h))>>
              /\ sludge_comps' =
                    RK4Next(sludge_comps, CurRate, RK4K2(h), RK4K3(h),
                            RK4K4(h), h)]_vars

\* C7: every discharge call performs flow resolution, snapshot,
\* integration, publication to the secondary outlet and main-outlet
\* discharge in that order, calls integrate exactly once with
\* (7, 'Euler', 0.05, 2.0), and advances the state by one integration step.
C7_DischargeCycle ==
    [][op'.name = "discharge"
       => /\ dsteps' = DischargeOrder
          /\ icalls' = <<DischargeArgs>>
          /\ steps_done' = steps_done + 1]_vars

\* C8: once assign_initial_guess has been called, the liquor vector, the
\* main-outlet vector and the secondary-outlet vector are element-wise
\* equal in every state.
C8_OutletsEqualLiquor ==
    guessed => (sludge_comps = mo_comps /\ sludge_comps = so_comps)

\* C9: in every state the stored surface area equals
\* activeVolume / sideWaterDepth for the current active volume.
C9_AreaDerived == area = RDiv(RInt(active_vol), swd)

\* C10: after every discharge call (here: every one that returned) the
\* previous main-outlet snapshot equals the main-outlet vector as the call
\* found it and the previous secondary-outlet snapshot equals the
\* secondary-outlet vector as the call found it.
C10_SnapshotsOfBothOutlets ==
    [][(op'.name = "discharge" /\ op'.result = "ok")
       => /\ prev_mo_comps' = mo_comps
          /\ prev_so_comps' = so_comps]_vars

====
